---- MODULE Spec2Model ----
(***************************************************************************)
(* A model of playbooks/csv_inventory.py: the CSV loader (load_header,     *)
(* conv_str2value, load_node_info, load_csv_inventory), the override       *)
(* extraction (get_groupvars), the aggregation (make_hostvars,             *)
(* make_groups, add_groupvars), the specialization (make_specific_items)   *)
(* and main, which runs them in sequence.                                  *)
(*                                                                         *)
(* Python strings are sequences of one-character strings, so that strip,   *)
(* split, lower, int() and float() are computed and not assumed.  Python   *)
(* dicts are sequences of entries [k, v] in insertion order (CPython 3.7+  *)
(* keeps insertion order; assigning to an existing key keeps its place).   *)
(***************************************************************************)
EXTENDS Integers, Sequences, FiniteSets, TLC

VARIABLES
    pc,               \* position in main / in the loader
    err,              \* the exception that ended the run ("" when none)
    files,            \* the file system: file name -> CSV rows (never written)
    common_val,       \* the content of common_val.yml (never written)
    common_info,      \* main's common_info dict
    inv_list,         \* main's inv_list
    file_idx,         \* number of entries of inv_list already loaded
    node_info_array,  \* main's node_info_array
    loaded,           \* history: the node records as the Loader produced them
    groupvars,        \* main's groupvars
    hostvars,         \* main's hostvars (an Opt: make_hostvars may return None)
    groups,           \* main's groups (an Opt: make_groups may return None)
    out               \* what json.dump wrote to stdout (an Opt)

vars == <<pc, err, files, common_val, common_info, inv_list, file_idx,
          node_info_array, loaded, groupvars, hostvars, groups, out>>

----------------------------------------------------------------------------
(* Python values *)

None == [none |-> TRUE, v |-> <<>>]
Some(x) == [none |-> FALSE, v |-> x]

\* a scalar: t is the Python type, s the text of a str, n the number of an
\* int or bool (True = 1), and a float is n / 10^e with no trailing zero
Val(t, s, n, e) == [t |-> t, s |-> s, n |-> n, e |-> e, l |-> <<>>]
StrVal(s) == Val("str", s, 0, 0)
IntVal(n) == Val("int", <<>>, n, 0)
BoolVal(b) == Val("bool", <<>>, IF b THEN 1 ELSE 0, 0)
FloatVal(n, e) == Val("float", <<>>, n, e)
NoneVal == Val("none", <<>>, 0, 0)
\* a list of dicts (the web_backend list)
ListVal(l) == [t |-> "list", s |-> <<>>, n |-> 0, e |-> 0, l |-> l]

----------------------------------------------------------------------------
(* dict: a sequence of entries [k |-> key, v |-> value], keys distinct *)

Keys(d) == [i \in 1..Len(d) |-> d[i].k]
KeySet(d) == {d[i].k : i \in 1..Len(d)}
Has(d, key) == \E i \in 1..Len(d) : d[i].k = key
IndexOf(d, key) == CHOOSE i \in 1..Len(d) : d[i].k = key
\* d[key]
Get(d, key) == d[IndexOf(d, key)].v
\* d.get(key, dflt)
GetOr(d, key, dflt) == IF Has(d, key) THEN Get(d, key) ELSE dflt
\* d[key] = value : an existing key keeps its position
DictSetMoveToEnd(d, key, value) ==
    SelectSeq(d, LAMBDA en : en.k # key) \o <<[k |-> key, v |-> value]>>
DictSet(d, key, value) ==
    IF Has(d, key)
    THEN [i \in 1..Len(d) |-> IF d[i].k = key THEN [k |-> key, v |-> value] ELSE d[i]]
    ELSE Append(d, [k |-> key, v |-> value])
\* d after d.pop(key, ...)
Without(d, key) == SelectSeq(d, LAMBDA en : en.k # key)
\* dict equality does not look at the order
DictEq(d1, d2) ==
    /\ KeySet(d1) = KeySet(d2)
    /\ \A key \in KeySet(d1) : Get(d1, key) = Get(d2, key)

----------------------------------------------------------------------------
(* str *)

Whitespace == {" "}
RECURSIVE LStrip(_)
LStrip(s) == IF s # <<>> /\ Head(s) \in Whitespace THEN LStrip(Tail(s)) ELSE s
RECURSIVE RStrip(_)
RStrip(s) ==
    IF s # <<>> /\ s[Len(s)] \in Whitespace THEN RStrip(SubSeq(s, 1, Len(s) - 1)) ELSE s
\* s.strip()
Strip(s) == RStrip(LStrip(s))

\* s.split(sep) for a one-character sep: always at least one element
RECURSIVE Split(_, _)
Split(s, sep) ==
    IF \E i \in 1..Len(s) : s[i] = sep
    THEN LET i == CHOOSE i \in 1..Len(s) : s[i] = sep /\ \A j \in 1..(i - 1) : s[j] # sep
         IN <<SubSeq(s, 1, i - 1)>> \o Split(SubSeq(s, i + 1, Len(s)), sep)
    ELSE <<s>>

UpperToLower ==
    [c \in {"T", "R", "U", "E", "F", "A", "L", "S"} |->
        CASE c = "T" -> "t" [] c = "R" -> "r" [] c = "U" -> "u" [] c = "E" -> "e"
          [] c = "F" -> "f" [] c = "A" -> "a" [] c = "L" -> "l" [] c = "S" -> "s"]
\* s.lower()
Lower(s) == [i \in 1..Len(s) |-> IF s[i] \in DOMAIN UpperToLower THEN UpperToLower[s[i]] ELSE s[i]]

Digits == {"0", "1", "2", "3", "4", "5", "6", "7", "8", "9"}
DigitValue ==
    [c \in Digits |->
        CASE c = "0" -> 0 [] c = "1" -> 1 [] c = "2" -> 2 [] c = "3" -> 3 [] c = "4" -> 4
          [] c = "5" -> 5 [] c = "6" -> 6 [] c = "7" -> 7 [] c = "8" -> 8 [] c = "9" -> 9]
AllDigits(s) == \A i \in 1..Len(s) : s[i] \in Digits
RECURSIVE DigitsValue(_)
DigitsValue(s) ==
    IF s = <<>> THEN 0 ELSE 10 * DigitsValue(SubSeq(s, 1, Len(s) - 1)) + DigitValue[s[Len(s)]]
Signed(s) == s # <<>> /\ Head(s) \in {"+", "-"}
Unsigned(s) == IF Signed(s) THEN Tail(s) ELSE s
SignOf(s) == IF s # <<>> /\ Head(s) = "-" THEN -1 ELSE 1

\* int(s) succeeds: an optional sign and one or more decimal digits
\* (underscores and surrounding blanks, which int() also accepts, do not
\* occur: the text is stripped and the cells hold no underscore)
IsInt(s) == Unsigned(s) # <<>> /\ AllDigits(Unsigned(s))
IntOf(s) == SignOf(s) * DigitsValue(Unsigned(s))

\* float(s) succeeds: an optional sign, digits, and optionally a point and
\* digits, with a digit somewhere (exponents, inf and nan do not occur in
\* the cells)
IsFloat(s) ==
    LET p == Split(Unsigned(s), ".")
    IN /\ Len(p) \in {1, 2}
       /\ \A i \in 1..Len(p) : AllDigits(p[i])
       /\ \E i \in 1..Len(p) : p[i] # <<>>
RECURSIVE DropTrailingZeros(_)
DropTrailingZeros(s) ==
    IF s # <<>> /\ s[Len(s)] = "0" THEN DropTrailingZeros(SubSeq(s, 1, Len(s) - 1)) ELSE s
FloatOf(s) ==
    LET p == Split(Unsigned(s), ".")
        frac == IF Len(p) = 2 THEN DropTrailingZeros(p[2]) ELSE <<>>
    IN FloatVal(SignOf(s) * DigitsValue(p[1] \o frac), Len(frac))

----------------------------------------------------------------------------
(* the string literals of the source *)

HOST_NAME == <<"h", "o", "s", "t", "_", "n", "a", "m", "e">>
GROUP == <<"g", "r", "o", "u", "p">>
BACKEND_IP == <<"b", "a", "c", "k", "e", "n", "d", "_", "i", "p">>
PORT_NO == <<"p", "o", "r", "t", "_", "n", "o">>
WEIGHT == <<"w", "e", "i", "g", "h", "t">>
WEB_SERVER == <<"w", "e", "b", "_", "s", "e", "r", "v", "e", "r">>
HA_PROXY == <<"h", "a", "_", "p", "r", "o", "x", "y">>
WEB_BACKEND == <<"w", "e", "b", "_", "b", "a", "c", "k", "e", "n", "d">>
ALL == <<"a", "l", "l">>
META == <<"_", "m", "e", "t", "a">>
HOSTS == <<"h", "o", "s", "t", "s">>
VARS == <<"v", "a", "r", "s">>
HOSTVARS == <<"h", "o", "s", "t", "v", "a", "r", "s">>
INVENTORY_LIST == <<"i", "n", "v", "e", "n", "t", "o", "r", "y", "_", "l", "i", "s", "t">>
GROUP_VARS == <<"g", "r", "o", "u", "p", "_", "v", "a", "r", "s">>
ALL_VARS == <<"a", "l", "l", "_", "v", "a", "r", "s">>
SPECIFIC_VARS == <<"s", "p", "e", "c", "i", "f", "i", "c", "_", "v", "a", "r", "s">>
TRUE_TEXT == <<"t", "r", "u", "e">>
FALSE_TEXT == <<"f", "a", "l", "s", "e">>
INVENTORY_CSV == <<"i", "n", "v", "e", "n", "t", "o", "r", "y", ".", "c", "s", "v">>

TYPE_STRING == <<"S">>
TYPE_INTEGER == <<"I">>
TYPE_BOOLEAN == <<"B">>
TYPE_FLOAT == <<"F">>

----------------------------------------------------------------------------
(* results of a call: a value, or the exception it raised *)

Ok(x) == [err |-> "", v |-> x]
Raise(e) == [err |-> e, v |-> <<>>]

----------------------------------------------------------------------------
(* the loader *)

\* load_header: None as soon as one cell has no '.', else one descriptor
\* per cell, in column order
load_header(header) ==
    IF \E i \in 1..Len(header) : Len(Split(Strip(header[i]), ".")) < 2
    THEN None
    ELSE Some([i \in 1..Len(header) |->
                 LET elements == Split(Strip(header[i]), ".")
                 IN [item_type |-> Strip(elements[1]), item_name |-> Strip(elements[2])]])

\* conv_str2value: None for the empty text whatever the type
conv_str2value_keep_empty(item_type, item) ==
    IF TYPE_STRING = item_type THEN Ok(StrVal(item))
    ELSE IF Len(item) <= 0 THEN Ok(NoneVal)
    ELSE IF TYPE_INTEGER = item_type
    THEN (IF IsInt(item) THEN Ok(IntVal(IntOf(item))) ELSE Raise("ValueError"))
    ELSE IF TYPE_BOOLEAN = item_type THEN Ok(BoolVal(Lower(item) = TRUE_TEXT))
    ELSE IF TYPE_FLOAT = item_type
    THEN (IF IsFloat(item) THEN Ok(FloatOf(item)) ELSE Raise("ValueError"))
    ELSE Ok(StrVal(item))
conv_str2value(item_type, item) ==
    IF Len(item) <= 0 THEN Ok(NoneVal)
    ELSE IF TYPE_STRING = item_type THEN Ok(StrVal(item))
    ELSE IF TYPE_INTEGER = item_type
    THEN (IF IsInt(item) THEN Ok(IntVal(IntOf(item))) ELSE Raise("ValueError"))
    ELSE IF TYPE_BOOLEAN = item_type
    THEN (IF Lower(item) = TRUE_TEXT THEN Ok(BoolVal(TRUE))
          ELSE IF Lower(item) = FALSE_TEXT THEN Ok(BoolVal(FALSE))
          ELSE Ok(BoolVal(FALSE)))
    ELSE IF TYPE_FLOAT = item_type
    THEN (IF IsFloat(item) THEN Ok(FloatOf(item)) ELSE Raise("ValueError"))
    ELSE Ok(StrVal(item))

\* the loop of load_node_info from position pos on, ret being the dict so far
RECURSIVE load_node_info_from(_, _, _, _)
load_node_info_from(header_info, item_array, pos, ret) ==
    IF pos > Len(header_info) THEN Ok(ret)
    ELSE IF pos > Len(item_array) THEN Raise("IndexError")
    ELSE LET header == header_info[pos]
             val == conv_str2value(header.item_type, Strip(item_array[pos]))
         IN IF val.err # "" THEN Raise(val.err)
            ELSE load_node_info_from(header_info, item_array, pos + 1,
                     IF val.v # NoneVal THEN DictSet(ret, header.item_name, val.v) ELSE ret)

\* load_node_info: iterating the None that load_header returned is a TypeError
load_node_info(header_info_array, item_array) ==
    IF header_info_array.none THEN Raise("TypeError")
    ELSE load_node_info_from(header_info_array.v, item_array, 1, <<>>)

\* the row loop of load_csv_inventory from row i on
RECURSIVE load_rows_from(_, _, _, _)
load_rows_from(header_info, rows, i, ret) ==
    IF i > Len(rows) THEN Ok(ret)
    ELSE IF Len(rows[i]) <= 0 THEN load_rows_from(header_info, rows, i + 1, ret)
    ELSE LET node_info == load_node_info(header_info, rows[i])
         IN IF node_info.err # "" THEN Raise(node_info.err)
            ELSE load_rows_from(header_info, rows, i + 1, Append(ret, node_info.v))

\* load_csv_inventory on the rows csv.reader yields for the file: next() on
\* a reader with no row raises StopIteration
load_csv_inventory(csv_rows) ==
    IF Len(csv_rows) = 0 THEN Raise("StopIteration")
    ELSE load_rows_from(load_header(Head(csv_rows)), Tail(csv_rows), 1, <<>>)

----------------------------------------------------------------------------
(* the aggregation.  The records of node_info_array are objects that      *)
(* make_hostvars and make_groups change in place; a value of hostvars is   *)
(* a reference to such a record: its index in node_info_array.             *)

\* the loop of make_hostvars from record i on
RECURSIVE make_hostvars_from(_, _, _)
make_hostvars_from(nodes, i, ret) ==
    IF i > Len(nodes) THEN [ret |-> Some(ret), nodes |-> nodes]
    ELSE IF ~Has(nodes[i], HOST_NAME) THEN [ret |-> None, nodes |-> nodes]
    ELSE make_hostvars_from([nodes EXCEPT ![i] = Without(@, HOST_NAME)], i + 1,
                            DictSet(ret, Get(nodes[i], HOST_NAME), i))

RECURSIVE make_hostvars_first_from(_, _, _)
make_hostvars_first_from(nodes, i, ret) ==
    IF i > Len(nodes) THEN [ret |-> Some(ret), nodes |-> nodes]
    ELSE IF ~Has(nodes[i], HOST_NAME) THEN [ret |-> None, nodes |-> nodes]
    ELSE make_hostvars_first_from([nodes EXCEPT ![i] = Without(@, HOST_NAME)], i + 1,
             IF Has(ret, Get(nodes[i], HOST_NAME)) THEN ret
             ELSE DictSet(ret, Get(nodes[i], HOST_NAME), i))
\* make_hostvars keeping the first record of a host name
make_hostvars_keep_first(nodes) == make_hostvars_first_from(nodes, 1, <<>>)

RECURSIVE make_hostvars_moving_from(_, _, _)
make_hostvars_moving_from(nodes, i, ret) ==
    IF i > Len(nodes) THEN [ret |-> Some(ret), nodes |-> nodes]
    ELSE IF ~Has(nodes[i], HOST_NAME) THEN [ret |-> None, nodes |-> nodes]
    ELSE make_hostvars_moving_from([nodes EXCEPT ![i] = Without(@, HOST_NAME)], i + 1,
                                   DictSetMoveToEnd(ret, Get(nodes[i], HOST_NAME), i))
\* make_hostvars re-inserting a repeated host name at the end
make_hostvars_reinsert(nodes) == make_hostvars_moving_from(nodes, 1, <<>>)

\* make_hostvars: the dict host name -> record (None when a record has no
\* host_name), and the records with host_name popped
make_hostvars(nodes) == make_hostvars_from(nodes, 1, <<>>)

\* the loop of make_groups from the j-th item of hostvars on
RECURSIVE make_groups_from(_, _, _, _)
make_groups_from(hv, nodes, j, ret) ==
    IF j > Len(hv) THEN [ret |-> Some(ret), nodes |-> nodes]
    ELSE LET node_name == hv[j].k
             node_info == nodes[hv[j].v]
         IN IF ~Has(node_info, GROUP) THEN [ret |-> None, nodes |-> nodes]
            ELSE LET group_name == Get(node_info, GROUP)
                     popped == [nodes EXCEPT ![hv[j].v] = Without(@, GROUP)]
                 IN make_groups_from(hv, popped, j + 1,
                        IF Has(ret, group_name)
                        THEN DictSet(ret, group_name,
                                 DictSet(Get(ret, group_name), HOSTS,
                                         Append(Get(Get(ret, group_name), HOSTS), node_name)))
                        ELSE DictSet(ret, group_name, <<[k |-> HOSTS, v |-> <<node_name>>]>>))

\* make_groups with hostvars None treated as no host at all
make_groups_none_as_empty(hv, nodes) ==
    IF hv.none THEN [err |-> "", ret |-> Some(<<>>), nodes |-> nodes]
    ELSE [err |-> ""] @@ make_groups_from(hv.v, nodes, 1, <<>>)

\* make_groups: hostvars.items() on None is an AttributeError
make_groups(hv, nodes) ==
    IF hv.none THEN [err |-> "AttributeError", ret |-> None, nodes |-> nodes]
    ELSE [err |-> ""] @@ make_groups_from(hv.v, nodes, 1, <<>>)

\* get_groupvars reading all_vars without popping it
get_groupvars_keep_all_vars(info) ==
    LET group_vars == GetOr(info, GROUP_VARS, <<>>)
        with_all == IF Has(info, ALL_VARS)
                    THEN DictSet(group_vars, StrVal(ALL), Get(info, ALL_VARS))
                    ELSE group_vars
    IN [ret |-> with_all, info |-> Without(info, GROUP_VARS)]

\* get_groupvars: the overlay, and common_info with both keys popped
get_groupvars(info) ==
    LET group_vars == GetOr(info, GROUP_VARS, <<>>)
        with_all == IF Has(info, ALL_VARS)
                    THEN DictSet(group_vars, StrVal(ALL), Get(info, ALL_VARS))
                    ELSE group_vars
    IN [ret |-> with_all, info |-> Without(Without(info, GROUP_VARS), ALL_VARS)]

\* the loop of add_groupvars from the j-th item of groupvars on; groups is
\* None when make_groups returned None, and using it is a TypeError
RECURSIVE add_groupvars_from(_, _, _)
add_groupvars_from(grps, gv, j) ==
    IF j > Len(gv) THEN [err |-> "", groups |-> grps]
    ELSE IF grps.none THEN [err |-> "TypeError", groups |-> grps]
    ELSE LET name == gv[j].k
             val == gv[j].v
         IN add_groupvars_from(
                IF name = StrVal(ALL)
                THEN Some(DictSet(grps.v, StrVal(ALL), <<[k |-> VARS, v |-> val]>>))
                ELSE IF Has(grps.v, name)
                THEN Some(DictSet(grps.v, name, DictSet(Get(grps.v, name), VARS, val)))
                ELSE grps,
                gv, j + 1)

RECURSIVE add_groupvars_create_from(_, _, _)
add_groupvars_create_from(grps, gv, j) ==
    IF j > Len(gv) THEN [err |-> "", groups |-> grps]
    ELSE IF grps.none THEN [err |-> "TypeError", groups |-> grps]
    ELSE add_groupvars_create_from(
             Some(DictSet(grps.v, gv[j].k,
                          DictSet(GetOr(grps.v, gv[j].k, <<>>), VARS, gv[j].v))),
             gv, j + 1)
\* add_groupvars creating an entry for every overlay name
add_groupvars_create(grps, gv) == add_groupvars_create_from(grps, gv, 1)

add_groupvars(grps, gv) == add_groupvars_from(grps, gv, 1)

----------------------------------------------------------------------------
(* the specialization *)

\* the backend descriptor of one web_server record
backend_of(node, def_port_no) ==
    <<[k |-> HOST_NAME, v |-> Get(node, HOST_NAME)],
      [k |-> BACKEND_IP, v |-> Get(node, BACKEND_IP)],
      [k |-> PORT_NO, v |-> GetOr(node, PORT_NO, def_port_no)],
      [k |-> WEIGHT, v |-> GetOr(node, WEIGHT, IntVal(1))]>>

\* the loop of make_specific_items from record i on
RECURSIVE backends_from(_, _, _, _)
backends_from(nodes, def_port_no, i, backend_array) ==
    IF i > Len(nodes) THEN Ok(backend_array)
    ELSE IF ~Has(nodes[i], GROUP) THEN Raise("KeyError")
    ELSE IF Get(nodes[i], GROUP) # StrVal(WEB_SERVER)
    THEN backends_from(nodes, def_port_no, i + 1, backend_array)
    ELSE IF ~Has(nodes[i], HOST_NAME) \/ ~Has(nodes[i], BACKEND_IP) THEN Raise("KeyError")
    ELSE backends_from(nodes, def_port_no, i + 1,
                       Append(backend_array, backend_of(nodes[i], def_port_no)))

\* make_specific_items writing the default port into the records it reads
make_specific_items_setdefault(nodes, gv, spec_vars) ==
    IF ~Has(gv, StrVal(WEB_SERVER)) \/ ~Has(Get(gv, StrVal(WEB_SERVER)), PORT_NO)
    THEN [err |-> "KeyError", nodes |-> nodes, groupvars |-> gv]
    ELSE LET def_port_no == Get(Get(gv, StrVal(WEB_SERVER)), PORT_NO)
             backends == backends_from(nodes, def_port_no, 1, <<>>)
         IN IF backends.err # "" THEN [err |-> backends.err, nodes |-> nodes, groupvars |-> gv]
            ELSE [err |-> "",
                  nodes |-> [i \in 1..Len(nodes) |->
                               IF Get(nodes[i], GROUP) = StrVal(WEB_SERVER)
                                  /\ ~Has(nodes[i], PORT_NO)
                               THEN DictSet(nodes[i], PORT_NO, def_port_no)
                               ELSE nodes[i]],
                  groupvars |->
                      IF Has(gv, StrVal(HA_PROXY))
                      THEN DictSet(gv, StrVal(HA_PROXY),
                               DictSet(Get(gv, StrVal(HA_PROXY)), WEB_BACKEND,
                                       ListVal(backends.v)))
                      ELSE gv]

\* make_specific_items: the returned node array and the overlay afterwards
make_specific_items(nodes, gv, spec_vars) ==
    IF ~Has(gv, StrVal(WEB_SERVER)) \/ ~Has(Get(gv, StrVal(WEB_SERVER)), PORT_NO)
    THEN [err |-> "KeyError", nodes |-> nodes, groupvars |-> gv]
    ELSE LET def_port_no == Get(Get(gv, StrVal(WEB_SERVER)), PORT_NO)
             backends == backends_from(nodes, def_port_no, 1, <<>>)
         IN IF backends.err # "" THEN [err |-> backends.err, nodes |-> nodes, groupvars |-> gv]
            ELSE [err |-> "",
                  nodes |-> nodes,
                  groupvars |->
                      IF Has(gv, StrVal(HA_PROXY))
                      THEN DictSet(gv, StrVal(HA_PROXY),
                               DictSet(Get(gv, StrVal(HA_PROXY)), WEB_BACKEND,
                                       ListVal(backends.v)))
                      ELSE gv]

----------------------------------------------------------------------------
(* main, one action per statement *)

inputs == <<files, common_val>>

\* an exception leaves main: nothing more runs, json.dump included
Abort(e) == pc' = "aborted" /\ err' = e

\* inv_list = common_info.pop('inventory_list', ['inventory.csv'])
PopInventoryList ==
    /\ pc = "main"
    /\ inv_list' = GetOr(common_info, INVENTORY_LIST, <<INVENTORY_CSV>>)
    /\ common_info' = Without(common_info, INVENTORY_LIST)
    /\ pc' = "load"
    /\ UNCHANGED <<err, inputs, file_idx, node_info_array, loaded, groupvars, hostvars,
                   groups, out>>

\* one iteration of "for file_name in inv_list"
LoadInventory ==
    /\ pc = "load"
    /\ file_idx < Len(inv_list)
    /\ LET file_name == inv_list[file_idx + 1]
           nodes == IF file_name \in DOMAIN files
                    THEN load_csv_inventory(files[file_name])
                    ELSE Raise("IOError")
       IN IF nodes.err # ""
          THEN /\ Abort(nodes.err)
               /\ UNCHANGED <<file_idx, node_info_array, loaded>>
          ELSE /\ node_info_array' = node_info_array \o nodes.v
               /\ loaded' = node_info_array'
               /\ file_idx' = file_idx + 1
               /\ UNCHANGED <<pc, err>>
    /\ UNCHANGED <<inputs, common_info, inv_list, groupvars, hostvars, groups, out>>

\* groupvars = get_groupvars(common_info), once the loop is over
GetGroupvars ==
    /\ pc = "load"
    /\ file_idx = Len(inv_list)
    /\ LET r == get_groupvars(common_info)
       IN groupvars' = r.ret /\ common_info' = r.info
    /\ pc' = "specific"
    /\ UNCHANGED <<err, inputs, inv_list, file_idx, node_info_array, loaded, hostvars,
                   groups, out>>

\* specific_vars = common_info.pop('specific_vars', {}) and
\* node_info_array = make_specific_items(...)
MakeSpecificItems ==
    /\ pc = "specific"
    /\ common_info' = Without(common_info, SPECIFIC_VARS)
    /\ LET r == make_specific_items(node_info_array, groupvars,
                                    GetOr(common_info, SPECIFIC_VARS, <<>>))
       IN /\ groupvars' = r.groupvars
          /\ node_info_array' = r.nodes
          /\ IF r.err # "" THEN Abort(r.err) ELSE pc' = "hostvars" /\ UNCHANGED err
    /\ UNCHANGED <<inputs, inv_list, file_idx, loaded, hostvars, groups, out>>

\* hostvars = make_hostvars(node_info_array)
MakeHostvars ==
    /\ pc = "hostvars"
    /\ LET r == make_hostvars(node_info_array)
       IN hostvars' = r.ret /\ node_info_array' = r.nodes
    /\ pc' = "groups"
    /\ UNCHANGED <<err, inputs, common_info, inv_list, file_idx, loaded, groupvars, groups, out>>

\* groups = make_groups(hostvars)
MakeGroups ==
    /\ pc = "groups"
    /\ LET r == make_groups(hostvars, node_info_array)
       IN /\ groups' = r.ret
          /\ node_info_array' = r.nodes
          /\ IF r.err # "" THEN Abort(r.err) ELSE pc' = "add_groupvars" /\ UNCHANGED err
    /\ UNCHANGED <<inputs, common_info, inv_list, file_idx, loaded, groupvars, hostvars, out>>

\* add_groupvars(groups, groupvars)
AddGroupvars ==
    /\ pc = "add_groupvars"
    /\ LET r == add_groupvars(groups, groupvars)
       IN /\ groups' = r.groups
          /\ IF r.err # "" THEN Abort(r.err) ELSE pc' = "meta" /\ UNCHANGED err
    /\ UNCHANGED <<inputs, common_info, inv_list, file_idx, node_info_array, loaded,
                   groupvars, hostvars, out>>

\* groups['_meta'] = {'hostvars': hostvars}
SetMeta ==
    /\ pc = "meta"
    /\ IF groups.none
       THEN Abort("TypeError") /\ UNCHANGED groups
       ELSE /\ groups' = Some(DictSet(groups.v, StrVal(META),
                                      <<[k |-> HOSTVARS, v |-> hostvars.v]>>))
            /\ pc' = "dump"
            /\ UNCHANGED err
    /\ UNCHANGED <<inputs, common_info, inv_list, file_idx, node_info_array, loaded,
                   groupvars, hostvars, out>>

\* a hostvars dict with each reference replaced by the record it refers to
Resolve(hv, nodes) == [j \in 1..Len(hv) |-> [k |-> hv[j].k, v |-> nodes[hv[j].v]]]

\* the document as json.dump walks it
Document(grps, nodes) ==
    DictSet(grps, StrVal(META),
            <<[k |-> HOSTVARS, v |-> Resolve(Get(Get(grps, StrVal(META)), HOSTVARS), nodes)]>>)

\* json.dump(groups, sys.stdout)
Dump ==
    /\ pc = "dump"
    /\ out' = Some(Document(groups.v, node_info_array))
    /\ pc' = "done"
    /\ UNCHANGED <<err, inputs, common_info, inv_list, file_idx, node_info_array, loaded,
                   groupvars, hostvars, groups>>

----------------------------------------------------------------------------
(* the inputs the specifications draw from *)

MaxRows == 1
MaxFiles == 2
MaxNodes == 3
MaxCols == 2

SeqsUpTo(S, n) == UNION {[1..m -> S] : m \in 0..n}
\* a header cell <TYPE>.<name>
Cell(type, name) == type \o <<".">> \o name

WEB001 == <<"w", "e", "b", "0", "0", "1">>
WEB002 == <<"w", "e", "b", "0", "0", "2">>
LB001 == <<"l", "b", "0", "0", "1">>
IP1 == <<"1", "0", ".", "0", ".", "0", ".", "1">>
IP2 == <<"1", "0", ".", "0", ".", "0", ".", "2">>
EXTRA_CSV == <<"e", "x", "t", "r", "a", ".", "c", "s", "v">>
ENV == <<"e", "n", "v">>
PROD == <<"p", "r", "o", "d">>
OWNER == <<"o", "w", "n", "e", "r">>

(* main: two files, each empty, or a header with up to MaxRows rows *)
FileNames == {INVENTORY_CSV, EXTRA_CSV}
GoodHeader ==
    <<Cell(TYPE_STRING, HOST_NAME), Cell(TYPE_STRING, GROUP), Cell(TYPE_STRING, BACKEND_IP),
      Cell(TYPE_INTEGER, PORT_NO)>>
\* the second cell has no '.'
BadHeader == <<Cell(TYPE_STRING, HOST_NAME), GROUP>>
\* a web_server row without port_no, and the blank line
MainRows == {<<WEB001, WEB_SERVER, IP1, <<>>>>, <<>>}
Csvs ==
    {<<>>} \cup {<<h>> \o rows : h \in {GoodHeader, BadHeader}, rows \in SeqsUpTo(MainRows, MaxRows)}

\* an optional key of a dict: absent, or present with one of the values
Optional(key, values) == {<<>>} \cup {<<[k |-> key, v |-> x]>> : x \in values}

WebServerVars == <<[k |-> PORT_NO, v |-> IntVal(80)]>>
AllVars == <<[k |-> ENV, v |-> StrVal(PROD)]>>
GroupVarsChoices ==
    {<<[k |-> StrVal(WEB_SERVER), v |-> WebServerVars]>> \o h :
        h \in Optional(StrVal(HA_PROXY), {<<>>})}

(* the aggregation: node records and overlays *)
Field(key, value) == <<[k |-> key, v |-> value]>>
AggNodes ==
    { Field(HOST_NAME, StrVal(WEB001)) \o Field(GROUP, StrVal(WEB_SERVER))
          \o Field(BACKEND_IP, StrVal(IP1)) \o Field(PORT_NO, IntVal(8080)),
      Field(HOST_NAME, StrVal(WEB002)) \o Field(GROUP, StrVal(WEB_SERVER))
          \o Field(BACKEND_IP, StrVal(IP2)) \o Field(WEIGHT, IntVal(2)),
      Field(HOST_NAME, StrVal(WEB001)) \o Field(GROUP, StrVal(HA_PROXY)),
      Field(HOST_NAME, StrVal(LB001)) \o Field(GROUP, StrVal(HA_PROXY)),
      Field(HOST_NAME, StrVal(LB001)) \o Field(GROUP, StrVal(ALL)),
      Field(HOST_NAME, StrVal(LB001)) \o Field(GROUP, StrVal(META)),
      Field(GROUP, StrVal(HA_PROXY)),
      Field(HOST_NAME, StrVal(WEB002)),
      Field(GROUP, StrVal(WEB_SERVER)) \o Field(BACKEND_IP, StrVal(IP1)),
      Field(HOST_NAME, StrVal(WEB002)) \o Field(GROUP, StrVal(WEB_SERVER)) }

(* the loader: header cells and row cells *)
HeaderCells ==
    { Cell(TYPE_STRING, PORT_NO), Cell(TYPE_INTEGER, PORT_NO), Cell(<<"X">>, PORT_NO),
      Cell(TYPE_BOOLEAN, WEIGHT), Cell(TYPE_FLOAT, WEIGHT),
      <<" ">> \o TYPE_INTEGER \o <<" ", ".", " ">> \o WEIGHT \o <<" ">>,
      WEIGHT }
Cells ==
    { <<>>, <<" ">>, <<"8", "0">>, <<" ", "8", "0", " ">>, <<"1", ".", "5", "0">>,
      <<"T", "r", "u", "e">>, <<"y", "e", "s">> }

----------------------------------------------------------------------------
(* the specifications *)

Unset ==
    /\ err = ""
    /\ groupvars = <<>>
    /\ hostvars = None
    /\ groups = None
    /\ out = None

\* main, after load_common_info has read common_val.yml
Init ==
    /\ pc = "main"
    /\ files \in [FileNames -> Csvs]
    /\ \E inv \in Optional(INVENTORY_LIST, SeqsUpTo(FileNames, MaxFiles) \ {<<>>}),
          gv \in Optional(GROUP_VARS, GroupVarsChoices),
          av \in Optional(ALL_VARS, {AllVars}),
          sv \in Optional(SPECIFIC_VARS, {<<>>}),
          other \in Optional(OWNER, {StrVal(PROD)}) :
            common_val = inv \o gv \o av \o sv \o other
    /\ common_info = common_val
    /\ inv_list = <<>>
    /\ file_idx = 0
    /\ node_info_array = <<>>
    /\ loaded = <<>>
    /\ Unset

Next ==
    \/ PopInventoryList
    \/ LoadInventory
    \/ GetGroupvars
    \/ MakeSpecificItems
    \/ MakeHostvars
    \/ MakeGroups
    \/ AddGroupvars
    \/ SetMeta
    \/ Dump

Spec == Init /\ [][Next]_vars

\* main from make_specific_items on, for any node records and any overlay
InitAgg ==
    /\ pc = "specific"
    /\ files = <<>>
    /\ common_val = <<>>
    /\ common_info = <<>>
    /\ inv_list = <<>>
    /\ file_idx = 0
    /\ node_info_array \in SeqsUpTo(AggNodes, MaxNodes)
    /\ loaded = node_info_array
    /\ err = ""
    /\ \E w \in Optional(StrVal(WEB_SERVER), {WebServerVars}),
          h \in Optional(StrVal(HA_PROXY), {<<>>}),
          a \in Optional(StrVal(ALL), {AllVars}) :
            groupvars = w \o h \o a
    /\ hostvars = None
    /\ groups = None
    /\ out = None

NextAgg ==
    \/ MakeSpecificItems
    \/ MakeHostvars
    \/ MakeGroups
    \/ AddGroupvars
    \/ SetMeta
    \/ Dump

SpecAgg == InitAgg /\ [][NextAgg]_vars

\* load_csv_inventory on one file: a header and one row
InitLoad ==
    /\ pc = "load"
    /\ \E header \in SeqsUpTo(HeaderCells, MaxCols), row \in SeqsUpTo(Cells, MaxCols) :
          files = [f \in {INVENTORY_CSV} |-> <<header, row>>]
    /\ common_val = <<>>
    /\ common_info = <<>>
    /\ inv_list = <<INVENTORY_CSV>>
    /\ file_idx = 0
    /\ node_info_array = <<>>
    /\ loaded = <<>>
    /\ Unset

NextLoad == LoadInventory

SpecLoad == InitLoad /\ [][NextLoad]_vars

----------------------------------------------------------------------------
(* what the properties speak of *)

Range(seq) == {seq[i] : i \in 1..Len(seq)}
HostOf(node) == Get(node, HOST_NAME)
GroupOf(node) == Get(node, GROUP)
\* every record carries host_name and group
WellFormed(nodes) == \A i \in 1..Len(nodes) : Has(nodes[i], HOST_NAME) /\ Has(nodes[i], GROUP)
Malformed(nodes) == ~WellFormed(nodes)
HostNames(nodes) == {HostOf(nodes[i]) : i \in 1..Len(nodes)}
GroupNames(nodes) == {GroupOf(nodes[i]) : i \in 1..Len(nodes)}
FirstIdx(nodes, h) ==
    CHOOSE i \in 1..Len(nodes) : HostOf(nodes[i]) = h /\ \A j \in 1..(i - 1) : HostOf(nodes[j]) # h
LastIdx(nodes, h) ==
    CHOOSE i \in 1..Len(nodes) :
        HostOf(nodes[i]) = h /\ \A j \in (i + 1)..Len(nodes) : HostOf(nodes[j]) # h
\* the group names of the records no later record repeats the host name of
SurvivingGroups(nodes) == {GroupOf(nodes[LastIdx(nodes, h)]) : h \in HostNames(nodes)}
\* the hosts list of a group of a groups map
HostsOf(grps, g) == Get(Get(grps, g), HOSTS)
\* the load aborted while reading the i-th source of inv_list
AbortedLoading(i) == pc = "aborted" /\ file_idx = i - 1
BadHeaderSource(i) ==
    /\ inv_list[i] \in DOMAIN files
    /\ Len(files[inv_list[i]]) > 0
    /\ load_header(Head(files[inv_list[i]])).none
RecognizedKeys == {INVENTORY_LIST, GROUP_VARS, ALL_VARS, SPECIFIC_VARS}

----------------------------------------------------------------------------
(* the properties *)

\* C1: a source whose header has a cell without '.' is skipped: reading it
\* never aborts the run, whatever rows follow its header.
C1_BadHeaderSourceSkipped ==
    \A i \in 1..Len(inv_list) : BadHeaderSource(i) => ~AbortedLoading(i)

\* C2 as stated: after make_hostvars and make_groups on well-formed records,
\* every group name of any record is a key of groups, and each hosts list is
\* in first-seen order of the host names without duplicates.
C2_EveryGroupNameIsKey ==
    (pc = "add_groupvars" /\ WellFormed(loaded)) =>
        /\ ~groups.none
        /\ GroupNames(loaded) \subseteq KeySet(groups.v)
        /\ \A g \in KeySet(groups.v) :
              \A a, b \in 1..Len(HostsOf(groups.v, g)) :
                  a < b => FirstIdx(loaded, HostsOf(groups.v, g)[a])
                             < FirstIdx(loaded, HostsOf(groups.v, g)[b])

\* C2 amended: the keys of groups are exactly the group names of the records
\* that are the last with their host name; each hosts list holds exactly the
\* host names whose last record is in the group, in first-seen order of the
\* host names, none twice.
C2_SurvivingGroupNamesAreKeys ==
    (pc = "add_groupvars" /\ WellFormed(loaded)) =>
        /\ ~groups.none
        /\ KeySet(groups.v) = SurvivingGroups(loaded)
        /\ \A g \in KeySet(groups.v) :
              /\ Range(HostsOf(groups.v, g))
                   = {h \in HostNames(loaded) : GroupOf(loaded[LastIdx(loaded, h)]) = g}
              /\ \A a, b \in 1..Len(HostsOf(groups.v, g)) :
                    a < b => FirstIdx(loaded, HostsOf(groups.v, g)[a])
                               < FirstIdx(loaded, HostsOf(groups.v, g)[b])

\* a repeated host name whose first record is in another group, with a
\* second host first seen between its two records in the surviving group
C2_Witness ==
    /\ pc = "add_groupvars"
    /\ WellFormed(loaded)
    /\ Len(loaded) = 3
    /\ HostOf(loaded[1]) = HostOf(loaded[3])
    /\ HostOf(loaded[2]) # HostOf(loaded[1])
    /\ GroupOf(loaded[1]) # GroupOf(loaded[3])
    /\ GroupOf(loaded[2]) = GroupOf(loaded[3])
    /\ Len(HostsOf(groups.v, GroupOf(loaded[3]))) = 2

\* the group keys of an assembled document, _meta apart
GroupKeys(grps) == KeySet(grps) \ {StrVal(META)}
HasAllOverlay == Has(groupvars, StrVal(ALL))

\* C3 as stated: the assembled document has M hostvars entries and N group
\* keys besides _meta, plus one exactly when an all overlay exists, N and M
\* being the numbers of distinct group and host names of the records.
C3_CountsAsStated ==
    pc = "dump" =>
        /\ Len(Get(Get(groups.v, StrVal(META)), HOSTVARS)) = Cardinality(HostNames(loaded))
        /\ Cardinality(GroupKeys(groups.v))
             = Cardinality(GroupNames(loaded)) + (IF HasAllOverlay THEN 1 ELSE 0)

\* C3 amended: M hostvars entries, and the keys besides _meta are exactly
\* the group names of the records that are the last with their host name,
\* '_meta' excepted, together with 'all' when an all overlay exists.
C3_KeysOfDocument ==
    pc = "dump" =>
        /\ Len(Get(Get(groups.v, StrVal(META)), HOSTVARS)) = Cardinality(HostNames(loaded))
        /\ KeySet(Get(Get(groups.v, StrVal(META)), HOSTVARS)) = HostNames(loaded)
        /\ GroupKeys(groups.v)
             = (SurvivingGroups(loaded) \cup (IF HasAllOverlay THEN {StrVal(ALL)} ELSE {}))
                 \ {StrVal(META)}

\* a document with an all overlay, a record in group 'all' and an overlay
\* entry for a group without hosts
C3_Witness ==
    /\ pc = "dump"
    /\ HasAllOverlay
    /\ StrVal(ALL) \in SurvivingGroups(loaded)
    /\ KeySet(groupvars) \ SurvivingGroups(loaded) # {}
    /\ Cardinality(HostNames(loaded)) = 2

\* C4: two records with one host name give one hostvars entry, the later
\* record's remaining fields (minus host_name, and minus group after the
\* groups phase), and the host is listed under the later record's group only.
C4_LaterRecordWins ==
    /\ (pc = "groups" /\ ~hostvars.none) =>
          /\ Len(hostvars.v) = Cardinality(KeySet(hostvars.v))
          /\ KeySet(hostvars.v) = HostNames(loaded)
          /\ \A h \in HostNames(loaded) :
                DictEq(node_info_array[Get(hostvars.v, h)],
                       Without(loaded[LastIdx(loaded, h)], HOST_NAME))
    /\ (pc = "add_groupvars" /\ ~groups.none) =>
          /\ Len(hostvars.v) = Cardinality(KeySet(hostvars.v))
          /\ KeySet(hostvars.v) = HostNames(loaded)
          /\ \A h \in HostNames(loaded) :
                /\ DictEq(node_info_array[Get(hostvars.v, h)],
                          Without(Without(loaded[LastIdx(loaded, h)], HOST_NAME), GROUP))
                /\ \A g \in KeySet(groups.v) :
                      h \in Range(HostsOf(groups.v, g))
                          <=> g = GroupOf(loaded[LastIdx(loaded, h)])

\* a host name repeated by a later record of another group that lacks a
\* field of the earlier one
C4_Witness ==
    /\ pc = "add_groupvars"
    /\ ~groups.none
    /\ \E i, j \in 1..Len(loaded) :
          /\ i < j
          /\ HostOf(loaded[i]) = HostOf(loaded[j])
          /\ GroupOf(loaded[i]) # GroupOf(loaded[j])
          /\ KeySet(loaded[i]) \ KeySet(loaded[j]) # {}
          /\ j = LastIdx(loaded, HostOf(loaded[j]))

\* C5: with a record that lacks host_name or group, wherever it stands and
\* whatever the overlay, the run never gets past make_groups and nothing is
\* written.
C5_MalformedRecordAborts ==
    Malformed(loaded) =>
        /\ out.none
        /\ pc \in {"specific", "hostvars", "groups", "aborted"}

\* a run that make_groups ended, the record without host_name not the first
C5_Witness ==
    /\ pc = "aborted"
    /\ err = "AttributeError"
    /\ Len(loaded) >= 2
    /\ Has(loaded[1], HOST_NAME)
    /\ \E i \in 2..Len(loaded) : ~Has(loaded[i], HOST_NAME)
    /\ HasAllOverlay

\* the positions of a row whose cell is not empty once trimmed
Filled(info, row) == {p \in 1..Len(info) : Strip(row[p]) # <<>>}
\* the last filled position of a field name
LastFilled(info, row, name) ==
    CHOOSE p \in Filled(info, row) :
        /\ info[p].item_name = name
        /\ \A q \in Filled(info, row) : info[q].item_name = name => q <= p

\* C6: a record holds a field name exactly when some position of that name
\* has a cell that is not empty after trimming, with the value converted
\* from the last such position, and never holds a null, whatever the type
\* codes.
C6_EmptyCellIsAbsent ==
    file_idx = 1 =>
        LET csv == files[INVENTORY_CSV]
            info == load_header(csv[1]).v
            row == csv[2]
        IN IF Len(row) = 0 THEN node_info_array = <<>>
           ELSE /\ Len(node_info_array) = 1
                /\ \A j \in 1..Len(node_info_array[1]) : node_info_array[1][j].v.t # "none"
                /\ KeySet(node_info_array[1])
                     = {info[p].item_name : p \in Filled(info, row)}
                /\ \A name \in KeySet(node_info_array[1]) :
                      Get(node_info_array[1], name)
                        = conv_str2value(info[LastFilled(info, row, name)].item_type,
                                         Strip(row[LastFilled(info, row, name)])).v

\* two columns of one name, the first filled and the second blank
C6_Witness ==
    /\ file_idx = 1
    /\ Len(files[INVENTORY_CSV][1]) = 2
    /\ Len(files[INVENTORY_CSV][2]) = 2
    /\ files[INVENTORY_CSV][2][2] = <<" ">>
    /\ Len(node_info_array) = 1
    /\ Len(node_info_array[1]) = 1
    /\ LET info == load_header(files[INVENTORY_CSV][1]).v
       IN info[1].item_name = info[2].item_name /\ info[1].item_type # info[2].item_type

\* the recognized keys still in common_info are those of common_val among keys
Remaining(keys) == KeySet(common_info) \cap RecognizedKeys = KeySet(common_val) \cap keys

\* C7: main pops inventory_list, then group_vars and all_vars, then
\* specific_vars, so that none is left after a complete run, and every
\* other key keeps its value throughout.
C7_RecognizedKeysDrained ==
    /\ KeySet(common_info) \ RecognizedKeys = KeySet(common_val) \ RecognizedKeys
    /\ \A key \in KeySet(common_val) \ RecognizedKeys :
          Get(common_info, key) = Get(common_val, key)
    /\ pc = "main" => Remaining(RecognizedKeys)
    /\ pc = "load" => Remaining({GROUP_VARS, ALL_VARS, SPECIFIC_VARS})
    /\ pc = "specific" => Remaining({SPECIFIC_VARS})
    /\ pc \in {"hostvars", "groups", "add_groupvars", "meta", "dump", "done"} => Remaining({})

\* a complete run on a document with the four keys and another one
C7_Witness ==
    /\ pc = "done"
    /\ RecognizedKeys \subseteq KeySet(common_val)
    /\ Has(common_info, OWNER)

\* C8: make_specific_items has run when the aggregation starts, and the
\* records the aggregation starts from are those the Loader produced,
\* every field included.
C8_AggregatorSeesLoadedRecords ==
    pc = "hostvars" =>
        /\ node_info_array = loaded
        /\ hostvars.none
        /\ groups.none

\* the transformer built a backend from a record without port_no
C8_Witness ==
    /\ pc = "hostvars"
    /\ \E i \in 1..Len(loaded) :
          GroupOf(loaded[i]) = StrVal(WEB_SERVER) /\ ~Has(loaded[i], PORT_NO)
    /\ Has(groupvars, StrVal(HA_PROXY))
    /\ Len(Get(Get(groupvars, StrVal(HA_PROXY)), WEB_BACKEND).l) > 0

\* the records make_specific_items can read every field it needs from
TransformInputOk(nodes) ==
    \A i \in 1..Len(nodes) :
        /\ Has(nodes[i], GROUP)
        /\ GroupOf(nodes[i]) = StrVal(WEB_SERVER)
              => Has(nodes[i], HOST_NAME) /\ Has(nodes[i], BACKEND_IP)
WebNodes(nodes) == SelectSeq(nodes, LAMBDA n : GroupOf(n) = StrVal(WEB_SERVER))

\* C9: make_specific_items never fails, with or without a web_server
\* overlay entry; it stores one backend per web_server record, in record
\* order, under web_backend of the ha_proxy entry when there is one, and
\* changes nothing else of the overlay.
C9_TransformAsStated ==
    TransformInputOk(loaded) =>
        /\ ~(pc = "aborted" /\ err = "KeyError")
        /\ pc = "hostvars" =>
              /\ \A g \in KeySet(groupvars) \ {StrVal(HA_PROXY)} :
                    ~Has(Get(groupvars, g), WEB_BACKEND)
              /\ Has(groupvars, StrVal(HA_PROXY)) =>
                    LET web == WebNodes(loaded)
                        backend_array == Get(Get(groupvars, StrVal(HA_PROXY)), WEB_BACKEND).l
                    IN /\ Len(backend_array) = Len(web)
                       /\ \A i \in 1..Len(web) :
                             /\ KeySet(backend_array[i]) = {HOST_NAME, BACKEND_IP, PORT_NO, WEIGHT}
                             /\ Get(backend_array[i], HOST_NAME) = HostOf(web[i])
                             /\ Get(backend_array[i], BACKEND_IP) = Get(web[i], BACKEND_IP)
                             /\ Get(backend_array[i], PORT_NO)
                                  = IF Has(web[i], PORT_NO) THEN Get(web[i], PORT_NO)
                                    ELSE Get(Get(groupvars, StrVal(WEB_SERVER)), PORT_NO)
                             /\ Get(backend_array[i], WEIGHT)
                                  = IF Has(web[i], WEIGHT) THEN Get(web[i], WEIGHT) ELSE IntVal(1)

\* the top-level groups of a document that list host h
GroupsListing(doc, h) ==
    {g \in KeySet(doc) : Has(Get(doc, g), HOSTS) /\ h \in Range(Get(Get(doc, g), HOSTS))}

\* C10: in the document main writes, every host of _meta.hostvars is listed
\* by exactly one top-level group, and no hostvars value has a host_name or
\* a group field.
C10_EveryHostInOneGroup ==
    pc = "done" =>
        LET hv == Get(Get(out.v, StrVal(META)), HOSTVARS)
        IN \A j \in 1..Len(hv) :
              /\ Cardinality(GroupsListing(out.v, hv[j].k)) = 1
              /\ ~Has(hv[j].v, HOST_NAME)
              /\ ~Has(hv[j].v, GROUP)

====
